---- MODULE Spec2Model ----
(***************************************************************************)
(* PayStream front end: the streaming session controller of the Analysis   *)
(* page (src/src/pages/Analysis.tsx) and the MermaidDiagram component      *)
(* (src/src/components/MermaidDiagram.tsx).                                *)
(*                                                                         *)
(* Amounts are integers: hundredths of an HBAR (1.5 HBAR = 150).           *)
(* Texts that the code inspects character by character (repoUrl, chart)    *)
(* are sequences of one-character strings.  The character "g" of a         *)
(* repoUrl stands for the substring 'github.com'.                          *)
(*                                                                         *)
(* Frames of the event stream are inputs of the environment: a frame is    *)
(* chosen when it is delivered.  EventSource delivers nothing once close() *)
(* has been called, so frames in flight at a close are never chosen.       *)
(* Not modelled: activeTab, shareCopied, pulse (display only).             *)
(***************************************************************************)
EXTENDS Integers, Sequences, FiniteSets, TLC

\* ------------------------------------------------------------------ bounds
MaxAgents == 5        \* cap on Len(agents): agent_start frames accepted per session
MaxRenders == 3       \* cap on _idCounter: renders started by one diagram instance
MaxPieces == 3        \* pieces a text handed to sanitizeChart on its own is made of
MaxStreams == 2       \* cap on open subscriptions when the page is entered again

\* --------------------------------------------------------------- constants
AGENT_DEFS == <<"Code Reader Agent", "Simplifier Agent", "Analogy Agent", "Insight Agent">>

RosterNames == {AGENT_DEFS[i] : i \in DOMAIN AGENT_DEFS}

\* ------------------------------------------------- inputs of the environment
StreamAgents == {"Code Reader Agent"}
StartPayments == {30}
FinalPayments == {45}
Allocations == {25}
TxIds == {"0.0.7@1"}
RemainingValues == {-5, 0, 105}
RefundAmounts == {0, 10}
ShareIds == {"r1"}
Messages == {"rate limited"}
ResultKeys == {"codeReader"}
Metas == {"owner/repo"}
BudgetChoices == {100, 150}
RepoUrls == { <<>>, <<" ">>, <<"x">>, <<" ", "g", " ">> }

Events ==
       [type : {"fetching_repo"}]
  \cup [type : {"repo_fetched"}, meta : Metas]
  \cup [type : {"agent_start"}, agent : StreamAgents, payment : StartPayments, allocation : Allocations]
  \cup [type : {"agent_complete"}, agent : StreamAgents, txId : TxIds, payment : FinalPayments,
        remainingBudget : RemainingValues, key : ResultKeys]
  \cup [type : {"agent_error"}, agent : StreamAgents]
  \cup [type : {"analysis_complete"}, data : {ResultKeys}]
  \cup [type : {"report_saved"}, shareId : ShareIds]
  \cup [type : {"refund"}, amount : RefundAmounts, txId : TxIds]
  \cup [type : {"error"}, message : Messages]
  \cup [type : {"heartbeat"}]

VARIABLES
  repoUrl, budget, phase, repoMeta, agents, remainingBudget,
  refundAmount, refundTxId, errorMsg, data, shareId,
  openStreams, staleStreams, mounted

sessionVars == <<repoUrl, budget, phase, repoMeta, agents, remainingBudget,
                 refundAmount, refundTxId, errorMsg, data, shareId,
                 openStreams, staleStreams, mounted>>

\* MermaidDiagram (src/src/components/MermaidDiagram.tsx)
VARIABLES
  chart, error, rendered, innerHTML, refCurrent, pending, idCounter, dMounted

diagramVars == <<chart, error, rendered, innerHTML, refCurrent, pending, idCounter, dMounted>>

\* sanitizeChart applied to a text on its own: the text and the result
VARIABLES sanRaw, sanCleaned

sanitizeVars == <<sanRaw, sanCleaned>>

\* frames the server has still to send when the stream follows a fixed scenario
VARIABLES script

vars == <<sessionVars, diagramVars, sanitizeVars, script>>

\* ----------------------------------------------------------------- helpers
IsSpace(c) == c \in {" ", "\n", "\t", "\r"}

RECURSIVE TrimStart(_)
TrimStart(s) == IF s # <<>> /\ IsSpace(Head(s)) THEN TrimStart(Tail(s)) ELSE s

RECURSIVE TrimEnd(_)
TrimEnd(s) == IF s # <<>> /\ IsSpace(s[Len(s)]) THEN TrimEnd(SubSeq(s, 1, Len(s) - 1)) ELSE s

Trim(s) == TrimEnd(TrimStart(s))

StartsWith(s, p) == Len(s) >= Len(p) /\ SubSeq(s, 1, Len(p)) = p

EndsWith(s, p) == Len(s) >= Len(p) /\ SubSeq(s, Len(s) - Len(p) + 1, Len(s)) = p

IncludesGithub(s) == \E i \in DOMAIN s : s[i] = "g"

\* The state a handler reads and writes, as one record.
Session ==
  [phase |-> phase, repoMeta |-> repoMeta, agents |-> agents,
   remainingBudget |-> remainingBudget, refundAmount |-> refundAmount,
   refundTxId |-> refundTxId, errorMsg |-> errorMsg, data |-> data,
   shareId |-> shareId, closed |-> FALSE]

\* if (event.type === 'fetching_repo')
onFetchingRepo(S, event) == [S EXCEPT !.phase = "fetching"]

\* if (event.type === 'repo_fetched')
onRepoFetched(S, event) == [S EXCEPT !.repoMeta = event.meta, !.phase = "analyzing"]

\* mutant: the payment of a starting agent is taken off the budget
onAgentStart_Charges(S, event) ==
  [S EXCEPT !.agents =
     Append(S.agents, [name |-> event.agent, key |-> "", status |-> "working",
                       payment |-> event.payment, txId |-> "",
                       allocation |-> event.allocation]),
            !.remainingBudget = S.remainingBudget - event.payment]

\* if (event.type === 'agent_start'): setAgents((prev) => [...prev, {...}])
onAgentStart(S, event) ==
  [S EXCEPT !.agents =
     Append(S.agents, [name |-> event.agent, key |-> "", status |-> "working",
                       payment |-> event.payment, txId |-> "",
                       allocation |-> event.allocation])]

\* mutant: the budget is derived on the client by subtracting the payment
applyRemaining_Subtract(S, event) == S.remainingBudget - event.payment

\* setRemainingBudget(event.remainingBudget)
applyRemaining(S, event) == event.remainingBudget

\* mutant: the completion upgrades the record but leaves the budget alone
onAgentComplete_NoBudget(S, event) ==
  [S EXCEPT
     !.agents = [i \in DOMAIN S.agents |->
                   IF S.agents[i].name = event.agent /\ S.agents[i].status = "working"
                   THEN [S.agents[i] EXCEPT !.status = "complete", !.txId = event.txId,
                                            !.payment = event.payment]
                   ELSE S.agents[i]],
     !.data = S.data \cup {event.key}]

\* if (event.type === 'agent_complete')
onAgentComplete(S, event) ==
  [S EXCEPT
     !.agents = [i \in DOMAIN S.agents |->
                   IF S.agents[i].name = event.agent /\ S.agents[i].status = "working"
                   THEN [S.agents[i] EXCEPT !.status = "complete", !.txId = event.txId,
                                            !.payment = event.payment]
                   ELSE S.agents[i]],
     !.remainingBudget = applyRemaining(S, event),
     !.data = S.data \cup {event.key}]

\* mutant: the failure marks every record, whatever its name
onAgentError_AnyName(S, event) ==
  [S EXCEPT
     !.agents = [i \in DOMAIN S.agents |-> [S.agents[i] EXCEPT !.status = "error"]]]

\* if (event.type === 'agent_error')
onAgentError(S, event) ==
  [S EXCEPT
     !.agents = [i \in DOMAIN S.agents |->
                   IF S.agents[i].name = event.agent
                   THEN [S.agents[i] EXCEPT !.status = "error"]
                   ELSE S.agents[i]]]

\* if (event.type === 'analysis_complete')
onAnalysisComplete(S, event) == [S EXCEPT !.data = event.data]

\* if (event.type === 'report_saved')
onReportSaved(S, event) == [S EXCEPT !.shareId = event.shareId]

\* mutant: the refund branch leaves the subscription open
onRefund_KeepsOpen(S, event) ==
  [S EXCEPT !.refundAmount = event.amount, !.refundTxId = event.txId,
            !.phase = "complete"]

\* if (event.type === 'refund'): ...; es.close()
onRefund(S, event) ==
  [S EXCEPT !.refundAmount = event.amount, !.refundTxId = event.txId,
            !.phase = "complete", !.closed = TRUE]

\* mutant: the error is shown but phase is left as it was
onErrorEvent_KeepsPhase(S, event) ==
  [S EXCEPT !.errorMsg = event.message, !.closed = TRUE]

\* if (event.type === 'error'): ...; es.close()
onErrorEvent(S, event) ==
  [S EXCEPT !.errorMsg = event.message, !.phase = "idle", !.closed = TRUE]

\* const event = JSON.parse(e.data) throws: the handler ends there, before any
\* setter and before es.close(); the session after it is the session before it.
onMalformed(S) == S

\* mutant: a type none of the ifs tests is treated as fatal
onmessage_UnknownFatal(S, event) ==
  CASE event.type = "fetching_repo" -> onFetchingRepo(S, event)
    [] event.type = "repo_fetched" -> onRepoFetched(S, event)
    [] event.type = "agent_start" -> onAgentStart(S, event)
    [] event.type = "agent_complete" -> onAgentComplete(S, event)
    [] event.type = "agent_error" -> onAgentError(S, event)
    [] event.type = "analysis_complete" -> onAnalysisComplete(S, event)
    [] event.type = "report_saved" -> onReportSaved(S, event)
    [] event.type = "refund" -> onRefund(S, event)
    [] event.type = "error" -> onErrorEvent(S, event)
    [] OTHER -> [S EXCEPT !.errorMsg = "unknown event", !.phase = "idle", !.closed = TRUE]

\* mutant: the transport error is shown and the subscription is left to the
\* browser, which reconnects it
onerror_KeepsOpen(S) ==
  [S EXCEPT !.errorMsg = "Could not connect to PayStream server. Make sure node server.js is running on port 3001.",
            !.phase = "idle"]

\* es.onerror = () => { setErrorMsg(...); setPhase('idle'); es.close() }
onerror(S) ==
  [S EXCEPT !.errorMsg = "Could not connect to PayStream server. Make sure node server.js is running on port 3001.",
            !.phase = "idle", !.closed = TRUE]

\* es.onmessage of startAnalysis, after JSON.parse succeeded: the session
\* after the handler ran on session S; closed is set when it called
\* es.close().  A type none of the ifs tests falls through them all.
onmessage(S, event) ==
  CASE event.type = "fetching_repo" -> onFetchingRepo(S, event)
    [] event.type = "repo_fetched" -> onRepoFetched(S, event)
    [] event.type = "agent_start" -> onAgentStart(S, event)
    [] event.type = "agent_complete" -> onAgentComplete(S, event)
    [] event.type = "agent_error" -> onAgentError(S, event)
    [] event.type = "analysis_complete" -> onAnalysisComplete(S, event)
    [] event.type = "report_saved" -> onReportSaved(S, event)
    [] event.type = "refund" -> onRefund(S, event)
    [] event.type = "error" -> onErrorEvent(S, event)
    [] OTHER -> S


\* ============================================================ MermaidDiagram
Letters ==
  {"a", "b", "c", "d", "e", "f", "g", "h", "i", "j", "k", "l", "m",
   "n", "o", "p", "q", "r", "s", "t", "u", "v", "w", "x", "y", "z",
   "A", "B", "C", "D", "E", "F", "G", "H", "I", "J", "K", "L", "M",
   "N", "O", "P", "Q", "R", "S", "T", "U", "V", "W", "X", "Y", "Z"}

\* the backtick character (written BT here)
BT == "BT"

\* three backticks
Fence == <<BT, BT, BT>>

\* const valid = ['graph ', 'flowchart ', 'sequenceDiagram', 'classDiagram',
\*                'erDiagram', 'gantt', 'pie']
valid ==
  { <<"g", "r", "a", "p", "h", " ">>,
    <<"f", "l", "o", "w", "c", "h", "a", "r", "t", " ">>,
    <<"s", "e", "q", "u", "e", "n", "c", "e", "D", "i", "a", "g", "r", "a", "m">>,
    <<"c", "l", "a", "s", "s", "D", "i", "a", "g", "r", "a", "m">>,
    <<"e", "r", "D", "i", "a", "g", "r", "a", "m">>,
    <<"g", "a", "n", "t", "t">>,
    <<"p", "i", "e">> }

\* 'graph TD\n'
DefaultKeywordLine == <<"g", "r", "a", "p", "h", " ", "T", "D", "\n">>

RECURSIVE DropLetters(_)
DropLetters(s) == IF s # <<>> /\ Head(s) \in Letters THEN DropLetters(Tail(s)) ELSE s

\* .replace(/^BT BT BT[a-z]*\n?/i, '')
StripLeadingFence(s) ==
  IF StartsWith(s, Fence)
  THEN LET rest == DropLetters(SubSeq(s, 4, Len(s)))
       IN  IF rest # <<>> /\ Head(rest) = "\n" THEN Tail(rest) ELSE rest
  ELSE s

\* mutant: the closing fence is left in place
StripTrailingFence_Keeps(s) == s

\* .replace(/BT BT BT$/, '')
StripTrailingFence(s) ==
  IF EndsWith(s, Fence) THEN SubSeq(s, 1, Len(s) - 3) ELSE s

sanitizeChart(raw) ==
  LET cleaned == Trim(StripTrailingFence(StripLeadingFence(Trim(raw))))
  IN  IF \E kw \in valid : StartsWith(cleaned, kw)
      THEN cleaned
      ELSE DefaultKeywordLine \o cleaned

\* error === null
NULL == <<"null">>

\* the svg markup the engine returns for a text
SvgOf(text) == <<"<svg>">> \o text

\* the chart prop when the parent gives none
UNDEFINED == <<"undefined">>

\* !chart || !chart.trim()
Blank(c) == c = UNDEFINED \/ c = <<>> \/ Trim(c) = <<>>

\* Which of the three returns of the component is on screen.
Display ==
  IF ~dMounted THEN "none"
  ELSE IF Blank(chart) THEN "placeholder"
  ELSE IF error # NULL THEN "fallback"
  ELSE IF innerHTML # <<>> THEN "svg"
  ELSE "empty"

\* .then(({ svg }) => { if (!ref.current) return; ref.current.innerHTML = svg; ... setRendered(true) })
thenSvg(r) ==
  IF ~refCurrent
  THEN [innerHTML |-> innerHTML, rendered |-> rendered]
  ELSE [innerHTML |-> SvgOf(r.safeChart), rendered |-> TRUE]

\* mutant: the failure is logged and nothing is shown for it
catchError_Swallow(r) == NULL

\* .catch((err) => { ...; setError(safeChart) })
catchError(r) == r.safeChart

\* chart texts the parent passes
Charts ==
  { <<>>,
    <<" ", "\n">>,
    <<"A">>,
    <<"p", "i", "e">>,
    <<" ", BT, BT, BT, "m", "\n", "B", "\n", BT, BT, BT>> }

\* The parent passes a different chart: the component renders again, the
\* div carrying ref is mounted only by the last return, then the effect runs.
SetChart(c) ==
  /\ dMounted
  /\ c # chart
  /\ LET attached == ~Blank(c) /\ error = NULL
         starts == attached
     IN  /\ starts => idCounter < MaxRenders
         /\ chart' = c
         /\ refCurrent' = attached
         /\ innerHTML' = IF attached /\ refCurrent THEN innerHTML ELSE <<>>
         /\ IF starts
            THEN /\ error' = NULL
                 /\ rendered' = FALSE
                 /\ idCounter' = idCounter + 1
                 /\ pending' = pending \cup {[id |-> idCounter + 1, chart |-> c,
                                             safeChart |-> sanitizeChart(c)]}
            ELSE UNCHANGED <<error, rendered, idCounter, pending>>
  /\ UNCHANGED dMounted
  /\ UNCHANGED <<sessionVars, sanitizeVars, script>>

\* mermaid.render(id, safeChart) resolves
RenderResolved(r) ==
  /\ r \in pending
  /\ pending' = pending \ {r}
  /\ innerHTML' = thenSvg(r).innerHTML
  /\ rendered' = thenSvg(r).rendered
  /\ UNCHANGED <<chart, error, refCurrent, idCounter, dMounted>>
  /\ UNCHANGED <<sessionVars, sanitizeVars, script>>

\* mutant: the fallback is given the chart prop as it is at the rejection
RenderRejected_ShowsChart(r) ==
  /\ r \in pending
  /\ pending' = pending \ {r}
  /\ IF dMounted
     THEN /\ error' = chart
          /\ refCurrent' = FALSE
          /\ innerHTML' = <<>>
     ELSE UNCHANGED <<error, refCurrent, innerHTML>>
  /\ UNCHANGED <<chart, rendered, idCounter, dMounted>>
  /\ UNCHANGED <<sessionVars, sanitizeVars, script>>

\* mermaid.render(id, safeChart) rejects; with error set the component
\* returns the fallback and the div carrying ref is gone.
RenderRejected(r) ==
  /\ r \in pending
  /\ pending' = pending \ {r}
  /\ IF dMounted
     THEN /\ error' = catchError(r)
          /\ refCurrent' = (refCurrent /\ catchError(r) = NULL)
          /\ innerHTML' = IF refCurrent /\ catchError(r) = NULL THEN innerHTML ELSE <<>>
     ELSE UNCHANGED <<error, refCurrent, innerHTML>>
  /\ UNCHANGED <<chart, rendered, idCounter, dMounted>>
  /\ UNCHANGED <<sessionVars, sanitizeVars, script>>

\* The owning view is torn down; the component's state goes with it.
DiagramUnmount ==
  /\ dMounted
  /\ dMounted' = FALSE
  /\ refCurrent' = FALSE
  /\ chart' = UNDEFINED
  /\ error' = NULL
  /\ rendered' = FALSE
  /\ innerHTML' = <<>>
  /\ UNCHANGED <<pending, idCounter>>
  /\ UNCHANGED <<sessionVars, sanitizeVars, script>>

\* -------------------------------------------------------------------- Init
InitSession ==
  /\ repoUrl = <<>>
  /\ budget = 150
  /\ phase = "idle"
  /\ repoMeta = "null"
  /\ agents = <<>>
  /\ remainingBudget = 0
  /\ refundAmount = 0
  /\ refundTxId = ""
  /\ errorMsg = ""
  /\ data = {}
  /\ shareId = ""
  /\ openStreams = 0
  /\ staleStreams = 0
  /\ mounted = TRUE

\* The component before it is given a chart.
InitDiagram ==
  /\ chart = UNDEFINED
  /\ error = NULL
  /\ rendered = FALSE
  /\ innerHTML = <<>>
  /\ refCurrent = FALSE
  /\ pending = {}
  /\ idCounter = 0
  /\ dMounted = TRUE

\* No text is being sanitized on its own and the stream follows no scenario.
InitIdle ==
  /\ sanRaw = UNDEFINED
  /\ sanCleaned = NULL
  /\ script = <<>>

Init == InitSession /\ InitDiagram /\ InitIdle

\* ----------------------------------------------------------------- actions
SetRepoUrl(u) ==
  /\ mounted /\ phase = "idle"
  /\ repoUrl' = u
  /\ UNCHANGED <<budget, phase, repoMeta, agents, remainingBudget, refundAmount,
                 refundTxId, errorMsg, data, shareId, openStreams, staleStreams, mounted>>
  /\ UNCHANGED <<diagramVars, sanitizeVars, script>>

SetBudget(b) ==
  /\ mounted /\ phase = "idle"
  /\ budget' = b
  /\ UNCHANGED <<repoUrl, phase, repoMeta, agents, remainingBudget, refundAmount,
                 refundTxId, errorMsg, data, shareId, openStreams, staleStreams, mounted>>
  /\ UNCHANGED <<diagramVars, sanitizeVars, script>>

\* mutant: a rejected start also wipes the previous session
StartRejected_ResetsSession ==
  /\ mounted /\ phase = "idle"
  /\ \/ /\ Trim(repoUrl) = <<>>
        /\ errorMsg' = "Please enter a GitHub repo URL."
     \/ /\ Trim(repoUrl) # <<>>
        /\ ~IncludesGithub(Trim(repoUrl))
        /\ errorMsg' = "Only GitHub repos are supported right now."
  /\ agents' = <<>>
  /\ remainingBudget' = budget
  /\ UNCHANGED <<repoUrl, budget, phase, repoMeta, refundAmount,
                 refundTxId, data, shareId, openStreams, staleStreams, mounted>>
  /\ UNCHANGED <<diagramVars, sanitizeVars, script>>

StartRejected ==
  /\ mounted /\ phase = "idle"
  /\ \/ /\ Trim(repoUrl) = <<>>
        /\ errorMsg' = "Please enter a GitHub repo URL."
     \/ /\ Trim(repoUrl) # <<>>
        /\ ~IncludesGithub(Trim(repoUrl))
        /\ errorMsg' = "Only GitHub repos are supported right now."
  /\ UNCHANGED <<repoUrl, budget, phase, repoMeta, agents, remainingBudget, refundAmount,
                 refundTxId, data, shareId, openStreams, staleStreams, mounted>>
  /\ UNCHANGED <<diagramVars, sanitizeVars, script>>

\* mutant: a start keeps the agents of the previous session
StartAccepted_KeepsAgents ==
  /\ mounted /\ phase = "idle"
  /\ Trim(repoUrl) # <<>>
  /\ IncludesGithub(Trim(repoUrl))
  /\ errorMsg' = ""
  /\ data' = {}
  /\ repoMeta' = "null"
  /\ refundAmount' = 0
  /\ refundTxId' = ""
  /\ shareId' = ""
  /\ remainingBudget' = budget
  /\ phase' = "fetching"
  /\ openStreams' = openStreams + 1
  /\ UNCHANGED <<repoUrl, budget, staleStreams, mounted, agents>>
  /\ UNCHANGED <<diagramVars, sanitizeVars, script>>

StartAccepted ==
  /\ mounted /\ phase = "idle"
  /\ Trim(repoUrl) # <<>>
  /\ IncludesGithub(Trim(repoUrl))
  /\ errorMsg' = ""
  /\ data' = {}
  /\ agents' = <<>>
  /\ repoMeta' = "null"
  /\ refundAmount' = 0
  /\ refundTxId' = ""
  /\ shareId' = ""
  /\ remainingBudget' = budget
  /\ phase' = "fetching"
  /\ openStreams' = openStreams + 1
  /\ UNCHANGED <<repoUrl, budget, staleStreams, mounted>>
  /\ UNCHANGED <<diagramVars, sanitizeVars, script>>

startAnalysis == StartRejected \/ StartAccepted

\* A frame of the subscription of the page on screen is delivered to
\* es.onmessage and parses.
Deliver(event) ==
  /\ mounted
  /\ openStreams > staleStreams
  /\ event.type = "agent_start" => Len(agents) < MaxAgents
  /\ LET S == onmessage(Session, event) IN
       /\ openStreams' = IF S.closed THEN openStreams - 1 ELSE openStreams
       /\ phase' = S.phase
       /\ repoMeta' = S.repoMeta
       /\ agents' = S.agents
       /\ remainingBudget' = S.remainingBudget
       /\ refundAmount' = S.refundAmount
       /\ refundTxId' = S.refundTxId
       /\ errorMsg' = S.errorMsg
       /\ data' = S.data
       /\ shareId' = S.shareId
  /\ UNCHANGED <<repoUrl, budget, staleStreams, mounted>>

\* The frame is any frame the server may send.
OnMessage(event) ==
  /\ Deliver(event)
  /\ UNCHANGED <<diagramVars, sanitizeVars, script>>

\* A frame is delivered whose data is not JSON: JSON.parse throws and the
\* handler ends there.
OnMalformedFrame ==
  /\ openStreams > 0
  /\ UNCHANGED vars

\* A frame arrives on a subscription opened by a page that has since been
\* torn down: its handler still runs, its setters act on the discarded
\* component and change nothing, its es.close() closes that subscription.
OnStaleMessage(event) ==
  /\ staleStreams > 0
  /\ onmessage(Session, event).closed
  /\ openStreams' = openStreams - 1
  /\ staleStreams' = staleStreams - 1
  /\ UNCHANGED <<repoUrl, budget, phase, repoMeta, agents, remainingBudget, refundAmount,
                 refundTxId, errorMsg, data, shareId, mounted>>
  /\ UNCHANGED <<diagramVars, sanitizeVars, script>>

\* mutant: the transport error is shown over the phase the session was in
OnError_KeepsPhase ==
  /\ mounted
  /\ openStreams > staleStreams
  /\ LET S == onerror(Session) IN
       /\ openStreams' = IF S.closed THEN openStreams - 1 ELSE openStreams
       /\ errorMsg' = S.errorMsg
  /\ UNCHANGED <<repoUrl, budget, phase, repoMeta, agents, remainingBudget, refundAmount,
                 refundTxId, data, shareId, staleStreams, mounted>>
  /\ UNCHANGED <<diagramVars, sanitizeVars, script>>

\* es.onerror of the subscription of the page on screen
OnError ==
  /\ mounted
  /\ openStreams > staleStreams
  /\ LET S == onerror(Session) IN
       /\ openStreams' = IF S.closed THEN openStreams - 1 ELSE openStreams
       /\ errorMsg' = S.errorMsg
       /\ phase' = S.phase
  /\ UNCHANGED <<repoUrl, budget, repoMeta, agents, remainingBudget, refundAmount,
                 refundTxId, data, shareId, staleStreams, mounted>>
  /\ UNCHANGED <<diagramVars, sanitizeVars, script>>

\* es.onerror of a subscription opened by a page that has since been torn down
OnStaleError ==
  /\ staleStreams > 0
  /\ openStreams' = openStreams - 1
  /\ staleStreams' = staleStreams - 1
  /\ UNCHANGED <<repoUrl, budget, phase, repoMeta, agents, remainingBudget, refundAmount,
                 refundTxId, errorMsg, data, shareId, mounted>>
  /\ UNCHANGED <<diagramVars, sanitizeVars, script>>

reset ==
  /\ mounted /\ phase = "complete"
  /\ phase' = "idle"
  /\ data' = {}
  /\ agents' = <<>>
  /\ repoMeta' = "null"
  /\ errorMsg' = ""
  /\ refundAmount' = 0
  /\ refundTxId' = ""
  /\ shareId' = ""
  /\ UNCHANGED <<repoUrl, budget, remainingBudget, openStreams, staleStreams, mounted>>
  /\ UNCHANGED <<diagramVars, sanitizeVars, script>>

\* navigate('/') from the header: the page is torn down and its state is
\* discarded with it (shown here as the initial values).  Nothing in the
\* component closes the EventSource: it has no effect cleanup, and every
\* subscription still open is from then on that of a page torn down.
Unmount ==
  /\ mounted
  /\ mounted' = FALSE
  /\ repoUrl' = <<>>
  /\ budget' = 150
  /\ phase' = "idle"
  /\ repoMeta' = "null"
  /\ agents' = <<>>
  /\ remainingBudget' = 0
  /\ refundAmount' = 0
  /\ refundTxId' = ""
  /\ errorMsg' = ""
  /\ data' = {}
  /\ shareId' = ""
  /\ staleStreams' = openStreams
  /\ UNCHANGED openStreams
  /\ UNCHANGED <<diagramVars, sanitizeVars, script>>

Next ==
  \/ \E u \in RepoUrls : SetRepoUrl(u)
  \/ \E b \in BudgetChoices : SetBudget(b)
  \/ startAnalysis
  \/ \E event \in Events : OnMessage(event)
  \/ \E event \in Events : OnStaleMessage(event)
  \/ OnMalformedFrame
  \/ OnError
  \/ OnStaleError
  \/ reset
  \/ Unmount

Spec == Init /\ [][Next]_vars

NextDiagram ==
  \/ \E c \in Charts : SetChart(c)
  \/ \E r \in pending : RenderResolved(r)
  \/ \E r \in pending : RenderRejected(r)
  \/ DiagramUnmount

SpecDiagram == Init /\ [][NextDiagram]_vars

\* ------------------------------------------- sanitizeChart on its own
\* the 'mermaid' language tag
MermaidTag == <<"m", "e", "r", "m", "a", "i", "d">>

\* pieces texts are put together from
Pieces == { Fence, <<" ">>, <<"\n">>, <<"A">>, <<"p", "i", "e">>, MermaidTag }

RECURSIVE PieceTexts(_)
PieceTexts(n) ==
  IF n = 0 THEN { <<>> }
  ELSE LET shorter == PieceTexts(n - 1)
       IN  shorter \cup { t \o p : t \in shorter, p \in Pieces }

\* texts in the shape of a fenced block: whitespace, the fence line (fence,
\* language tag, newline), the content, the closing fence, whitespace
Surrounds == { <<>>, <<" ", " ">> }
Tags == { <<>>, MermaidTag }
Contents ==
  { <<"A">>,
    <<"A", "-", "-", ">", "B">>,
    <<"p", "i", "e">>,
    <<"g", "r", "a", "p", "h", " ", "T", "D", "\n", "A">>,
    <<"g", "r", "a", "p", "h", "T", "D">> }
ClosingSeps == { <<>>, <<"\n">> }

Fenced(lead, tag, content, sep, trail) ==
  lead \o Fence \o tag \o <<"\n">> \o content \o sep \o Fence \o trail

FencedTexts ==
  { Fenced(lead, tag, content, sep, trail) :
      lead \in Surrounds, tag \in Tags, content \in Contents,
      sep \in ClosingSeps, trail \in Surrounds }

Texts == PieceTexts(MaxPieces) \cup FencedTexts

InitSanitize ==
  /\ InitSession /\ InitDiagram
  /\ script = <<>>
  /\ sanRaw \in Texts
  /\ sanCleaned = NULL

\* const safeChart = sanitizeChart(chart)
Sanitize ==
  /\ sanCleaned = NULL
  /\ sanCleaned' = sanitizeChart(sanRaw)
  /\ UNCHANGED <<sanRaw, sessionVars, diagramVars, script>>

NextSanitize == Sanitize

SpecSanitize == InitSanitize /\ [][NextSanitize]_vars

\* ------------------------------------------------ the stream of Scenario A
\* the text 'repo-A', and a GitHub URL of that repository ("g" is 'github.com')
RepoA == <<"r", "e", "p", "o", "-", "A">>
GithubRepoA == <<"g", "/", "o", "/", "r", "e", "p", "o", "-", "A">>
ScenarioUrls == { RepoA, GithubRepoA }

\* the orders in which the four roster agents may be started or may complete
Orders == { o \in [1..Len(AGENT_DEFS) -> RosterNames] : \A i, j \in DOMAIN o : o[i] = o[j] => i = j }

\* remaining budgets carried by the four completions: 1.05, 0.70, 0.32, 0.0
ScenarioBudgets == <<105, 70, 32, 0>>

ScenarioA(startOrder, doneOrder) ==
     << [type |-> "repo_fetched", meta |-> "owner/repo"] >>
  \o [i \in 1..Len(AGENT_DEFS) |->
        [type |-> "agent_start", agent |-> startOrder[i], payment |-> 30, allocation |-> 25]]
  \o [i \in 1..Len(AGENT_DEFS) |->
        [type |-> "agent_complete", agent |-> doneOrder[i], txId |-> "0.0.7@1", payment |-> 45,
         remainingBudget |-> ScenarioBudgets[i], key |-> "codeReader"]]
  \o << [type |-> "refund", amount |-> 10, txId |-> "0.0.7@1"] >>

ScenariosA == { ScenarioA(s, d) : s \in Orders, d \in Orders }

\* The page as constructed (budget 1.5), the server about to follow Scenario A.
InitScenario ==
  /\ InitSession /\ InitDiagram
  /\ sanRaw = UNDEFINED
  /\ sanCleaned = NULL
  /\ script \in ScenariosA

\* The next frame of the scenario is delivered to es.onmessage.
Replay ==
  /\ script # <<>>
  /\ Deliver(Head(script))
  /\ script' = Tail(script)
  /\ UNCHANGED <<diagramVars, sanitizeVars>>

NextScenario ==
  \/ \E u \in ScenarioUrls : SetRepoUrl(u)
  \/ startAnalysis
  \/ Replay

SpecScenario == InitScenario /\ [][NextScenario]_vars

\* ------------------------------------- leaving the page and coming back
\* frames that end a session or move it on
PageEvents == { event \in Events : event.type \in {"repo_fetched", "refund", "error"} }

\* navigate('/analyze') from the landing page: a new Analysis component is
\* mounted, with the state its hooks construct.
Remount ==
  /\ ~mounted
  /\ openStreams < MaxStreams
  /\ mounted' = TRUE
  /\ UNCHANGED <<repoUrl, budget, phase, repoMeta, agents, remainingBudget, refundAmount,
                 refundTxId, errorMsg, data, shareId, openStreams, staleStreams>>
  /\ UNCHANGED <<diagramVars, sanitizeVars, script>>

NextPages ==
  \/ \E u \in RepoUrls : SetRepoUrl(u)
  \/ startAnalysis
  \/ \E event \in PageEvents : OnMessage(event)
  \/ \E event \in PageEvents : OnStaleMessage(event)
  \/ OnError
  \/ OnStaleError
  \/ reset
  \/ Unmount
  \/ Remount

SpecPages == Init /\ [][NextPages]_vars

\* ======================================================== session claims
RosterSize == Len(AGENT_DEFS)

Terminal(a) == a.status \in {"complete", "error"}

PhaseRank(p) ==
  CASE p = "idle" -> 0 [] p = "fetching" -> 1 [] p = "analyzing" -> 2 [] p = "complete" -> 3

\* C1: within a session the number of records in agents never exceeds the
\* roster size of 4.
C1_AgentsWithinRoster == Len(agents) <= RosterSize

\* C2: a record is created only as working, a working record may become
\* complete or error, and a complete or error record keeps its status for the
\* rest of the session.
C2_StatusTransitions ==
  [][\A i \in DOMAIN agents' :
       IF i \in DOMAIN agents
       THEN \/ agents'[i].status = agents[i].status
            \/ agents[i].status = "working" /\ Terminal(agents'[i])
       ELSE agents'[i].status = "working"]_vars

\* C3 (as stated): remainingBudget is never negative and no worker-completed
\* event leaves it greater than it was before the event.
C3_BudgetNeverIncreases ==
  [][\A event \in Events :
       (event.type = "agent_complete" /\ OnMessage(event))
         => (remainingBudget' >= 0 /\ remainingBudget' <= remainingBudget)]_vars

\* C3 (amended): after each worker-completed event remainingBudget is the value
\* the event carries, so it is non-negative and not above its previous value
\* whenever the value carried by the event is.
C3_BudgetFollowsStream ==
  [][\A event \in Events :
       (event.type = "agent_complete" /\ mounted /\ OnMessage(event))
         => /\ remainingBudget' = event.remainingBudget
            /\ (0 <= event.remainingBudget /\ event.remainingBudget <= remainingBudget)
                 => (0 <= remainingBudget' /\ remainingBudget' <= remainingBudget)]_vars

\* A worker-completed event has upgraded a record and lowered the budget
\* from the submitted 150 to 105.
C3_Witness ==
  /\ openStreams = 1
  /\ budget = 150
  /\ remainingBudget = 105
  /\ \E i \in DOMAIN agents : agents[i].status = "complete"

\* C4: once a refund-issued event has been applied, no later event of the
\* session changes the refund amount or receipt id.
C4_RefundSetOnce ==
  [][\A event \in Events :
       (refundTxId # "" /\ OnMessage(event))
         => (refundAmount' = refundAmount /\ refundTxId' = refundTxId)]_vars

\* A refund of 10 has been applied and closed the subscription.
C4_Witness ==
  /\ phase = "complete"
  /\ refundAmount = 10
  /\ refundTxId # ""
  /\ openStreams = 0

\* C5: whenever a refund is set and shown by the banner, every roster slot has
\* a record that is complete or error.
C5_RefundOnlyWhenAllTerminal ==
  (phase = "complete" /\ refundAmount > 0)
    => \A n \in RosterNames :
         \E i \in DOMAIN agents : agents[i].name = n /\ Terminal(agents[i])

\* C6: no stream event moves phase backward in idle < fetching < analyzing <
\* complete, except an error event, which resets it to idle.
C6_PhaseMonotone ==
  [][\A event \in Events :
       OnMessage(event)
         => \/ PhaseRank(phase') >= PhaseRank(phase)
            \/ event.type = "error" /\ phase' = "idle"]_vars

\* C7: in every session state with an open subscription, applying a recognized
\* event twice gives the same session as applying it once.
C7_DispatchIdempotent ==
  (mounted /\ openStreams > 0)
    => \A event \in Events :
         onmessage(onmessage(Session, event), event) = onmessage(Session, event)

\* C8: a close of the subscription happens from every phase when the owning
\* page is torn down, so that no frame is dispatched afterwards.
C8_ClosedOnTeardown == (~mounted) => openStreams = 0

\* the shape startAnalysis accepts: not empty after trim, contains 'github.com'
ValidRepoUrl(u) == Trim(u) # <<>> /\ IncludesGithub(Trim(u))

\* the types es.onmessage tests for
KnownTypes ==
  {"fetching_repo", "repo_fetched", "agent_start", "agent_complete", "agent_error",
   "analysis_complete", "report_saved", "refund", "error"}

\* C12: a start with an invalid repo URL opens no subscription and keeps
\* phase, agents, refund, shareId and remainingBudget; it sets the error
\* message only.  (With the URL invalid and the form left alone, the only
\* thing the idle page does is the start.)
C12_InvalidStartChangesNothing ==
  [][(mounted /\ phase = "idle" /\ ~ValidRepoUrl(repoUrl)
        /\ repoUrl' = repoUrl /\ budget' = budget /\ mounted')
       => /\ openStreams' = openStreams
          /\ UNCHANGED <<phase, agents, refundAmount, refundTxId, shareId, remainingBudget>>
          /\ errorMsg' # ""]_vars

\* A start was rejected while the agents of an earlier session were still there.
C12_Witness ==
  /\ mounted /\ phase = "idle" /\ openStreams = 0
  /\ ~ValidRepoUrl(repoUrl)
  /\ errorMsg = "Only GitHub repos are supported right now."
  /\ agents # <<>>

\* C13: a successful start gives a fresh session whatever the previous one
\* left: phase fetching, no agents, no repo metadata, no refund, no shareId, no
\* error, remainingBudget the submitted budget, one more open subscription.
C13_StartGivesFreshSession ==
  [][(mounted /\ phase = "idle" /\ phase' # "idle" /\ mounted')
       => /\ phase' = "fetching"
          /\ agents' = <<>>
          /\ repoMeta' = "null"
          /\ refundAmount' = 0 /\ refundTxId' = ""
          /\ shareId' = ""
          /\ errorMsg' = ""
          /\ data' = {}
          /\ remainingBudget' = budget
          /\ openStreams' = openStreams + 1]_vars

\* A session just started with the budget moved to 1.0.
C13_Witness ==
  /\ mounted /\ phase = "fetching" /\ openStreams = 1
  /\ budget = 100 /\ remainingBudget = 100
  /\ agents = <<>> /\ repoMeta = "null" /\ errorMsg = ""

\* C14: a frame whose type is none of the recognized ones leaves every session
\* field as it was, sets no error and does not close the subscription.
C14_UnknownTypeIgnored ==
  (mounted /\ openStreams > 0)
    => \A event \in Events :
         event.type \notin KnownTypes => onmessage(Session, event) = Session

\* A session in the middle of its work, where such a frame may arrive.
C14_Witness ==
  /\ mounted /\ openStreams = 1
  /\ phase = "analyzing"
  /\ agents # <<>>
  /\ shareId # ""

\* C15: a frame that does not parse is handled like a fatal-error event: an
\* error message is set, phase becomes idle and the subscription is closed.
C15_MalformedIsFatal ==
  (mounted /\ openStreams > 0)
    => LET T == onMalformed(Session)
       IN  T.errorMsg # "" /\ T.phase = "idle" /\ T.closed

HasWorking(n) == \E i \in DOMAIN agents : agents[i].name = n /\ agents[i].status = "working"

\* C16: a worker-completed or worker-failed event for a name with no record in
\* status working leaves the whole session as it was.
C16_NoWorkingRecordNoOp ==
  (mounted /\ openStreams > 0)
    => \A event \in Events :
         (event.type \in {"agent_complete", "agent_error"} /\ ~HasWorking(event.agent))
           => onmessage(Session, event) = Session

\* names a worker-failed event may carry
ProbeAgents == RosterNames \cup {"Research Agent"}

\* C17: a worker-failed event for a name no worker-started event was applied
\* for in the session (no record carries the name) leaves agents as it was.
C17_FailedNeverStartedKeepsAgents ==
  (mounted /\ openStreams > 0)
    => \A n \in ProbeAgents :
         (~\E i \in DOMAIN agents : agents[i].name = n)
           => onmessage(Session, [type |-> "agent_error", agent |-> n]).agents = agents

\* Records of another agent, working and complete, are there to be left alone.
C17_Witness ==
  /\ mounted /\ openStreams = 1
  /\ \E i \in DOMAIN agents : agents[i].status = "working"
  /\ \E i \in DOMAIN agents : agents[i].status = "complete"
  /\ \E n \in ProbeAgents : ~\E i \in DOMAIN agents : agents[i].name = n

\* C18: a fatal-error event while analyzing sets the error message, resets
\* phase to idle and closes the subscription; the start that follows leaves no
\* agent and no refund of the failed session.
C18_FatalErrorThenFreshStart ==
  [][/\ \A event \in Events :
          (event.type = "error" /\ mounted /\ phase = "analyzing" /\ OnMessage(event))
            => /\ errorMsg' = event.message
               /\ phase' = "idle"
               /\ openStreams' = openStreams - 1
     /\ (mounted /\ phase = "idle" /\ errorMsg \in Messages /\ phase' = "fetching")
          => (agents' = <<>> /\ refundAmount' = 0 /\ refundTxId' = "")]_vars

\* 'rate limited' arrived after the repo was fetched and agents had started.
C18_Witness ==
  /\ mounted /\ phase = "idle" /\ openStreams = 0
  /\ errorMsg = "rate limited"
  /\ repoMeta # "null"
  /\ agents # <<>>

\* C19: once every frame of Scenario A has been dispatched (after the start
\* for repository repo-A with budget 1.5), phase is complete, remainingBudget
\* is 0.0, the refund amount is 0.10 and the four roster agents each have one
\* record, all complete.
C19_ScenarioAEndState ==
  script = <<>>
    => /\ phase = "complete"
       /\ remainingBudget = 0
       /\ refundAmount = 10
       /\ Len(agents) = RosterSize
       /\ \A i \in DOMAIN agents : agents[i].status = "complete"
       /\ {agents[i].name : i \in DOMAIN agents} = RosterNames

\* The scenario has run to its end from the GitHub URL.
C19_Witness ==
  /\ script = <<>>
  /\ repoUrl = GithubRepoA
  /\ budget = 150
  /\ phase = "complete"
  /\ openStreams = 0

\* C22: a transport failure of the subscription, in whatever phase it comes,
\* sets an error message, resets phase to idle and closes the subscription;
\* nothing reopens it: the only step that opens a subscription is a start.
C22_TransportErrorResets ==
  [][/\ OnError => /\ errorMsg' # ""
                   /\ phase' = "idle"
                   /\ openStreams' = openStreams - 1
     /\ openStreams' > openStreams => StartAccepted]_vars

\* The connection dropped while agents were at work.
C22_Witness ==
  /\ mounted /\ phase = "idle" /\ openStreams = 0
  /\ errorMsg = "Could not connect to PayStream server. Make sure node server.js is running on port 3001."
  /\ \E i \in DOMAIN agents : agents[i].status = "working"

\* C23: remainingBudget is last-write-wins over the stream: a start sets it to
\* the submitted budget, a worker-completed event sets it to the value the
\* event carries, and no other event or step of the session changes it or the
\* submitted budget; no payment is ever subtracted.
C23_BudgetLastWriteWins ==
  [][/\ StartAccepted => remainingBudget' = budget
     /\ \A event \in Events :
          OnMessage(event)
            => remainingBudget' = IF event.type = "agent_complete"
                                  THEN event.remainingBudget
                                  ELSE remainingBudget
     /\ (phase # "idle" /\ mounted' /\ ~\E event \in Events : OnMessage(event))
          => remainingBudget' = remainingBudget
     /\ (phase # "idle" /\ mounted') => budget' = budget]_vars

\* The last completion carried -0.05 for a budget of 1.0, and that is shown.
C23_Witness ==
  /\ mounted /\ openStreams = 1
  /\ budget = 100
  /\ remainingBudget = -5
  /\ \E i \in DOMAIN agents : agents[i].status = "complete" /\ agents[i].payment = 45

\* C24: a worker-started event whose agent name is not one of the four roster
\* names is a no-op on agents, and every record in agents carries a roster name.
C24_NonRosterStartRejected ==
  (mounted /\ openStreams > staleStreams)
    => /\ \A n \in ProbeAgents \ RosterNames, p \in StartPayments, a \in Allocations :
            onmessage(Session, [type |-> "agent_start", agent |-> n,
                                payment |-> p, allocation |-> a]).agents = agents
       /\ \A i \in DOMAIN agents : agents[i].name \in RosterNames

\* indexes of the working records named n
WorkingOf(n) == {i \in DOMAIN agents : agents[i].name = n /\ agents[i].status = "working"}

\* C25: a worker-completed event upgrades exactly one record, the most recent
\* working record of that name, to complete with the event's payment and
\* receipt id; every other record, earlier working records of the same name
\* included, stays as it was.
C25_CompletionUpgradesMostRecent ==
  [][\A event \in Events :
       (event.type = "agent_complete" /\ OnMessage(event))
         => /\ DOMAIN agents' = DOMAIN agents
            /\ \A i \in DOMAIN agents :
                 IF i \in WorkingOf(event.agent) /\ \A j \in WorkingOf(event.agent) : j <= i
                 THEN agents'[i] = [agents[i] EXCEPT !.status = "complete",
                                                     !.payment = event.payment,
                                                     !.txId = event.txId]
                 ELSE agents'[i] = agents[i]]_vars

\* C26: a worker-started, worker-completed or worker-failed event dispatched
\* while phase is fetching leaves agents and remainingBudget as they were.
C26_WorkerEventsNeedAnalyzing ==
  (mounted /\ openStreams > staleStreams /\ phase = "fetching")
    => \A event \in Events :
         event.type \in {"agent_start", "agent_complete", "agent_error"}
           => /\ onmessage(Session, event).agents = agents
              /\ onmessage(Session, event).remainingBudget = remainingBudget

\* C27: in every reachable state a non-empty error message implies that phase
\* is idle, whichever of the validation, the fatal-error event or the
\* transport error set the message.
C27_ErrorImpliesIdle == errorMsg # "" => phase = "idle"

\* The subscription failed right after a start, before anything was fetched.
C27_Witness ==
  /\ mounted /\ phase = "idle" /\ openStreams = 0
  /\ errorMsg = "Could not connect to PayStream server. Make sure node server.js is running on port 3001."
  /\ remainingBudget = budget
  /\ repoMeta = "null" /\ agents = <<>>

\* const workingCount = agents.filter((a) => a.status === 'working').length
workingCount == Cardinality({i \in DOMAIN agents : agents[i].status = "working"})

\* the label of the orchestrator box, drawn while analyzing or complete
orchestratorStatus ==
  IF workingCount > 1 THEN "PHASE 2 PARALLEL DISPATCH"
  ELSE IF workingCount = 1 THEN "PHASE 1 BOOT SEQUENCE"
  ELSE IF Len(agents) > 0 THEN "ALL AGENTS COMPLETE"
  ELSE "INITIALIZING..."

\* C30: the label reads 'ALL AGENTS COMPLETE' only where each of the four
\* roster agents has a record with status complete, never while a roster agent
\* is still pending or has failed.
C30_AllCompleteLabelMeansAllComplete ==
  (mounted /\ phase \in {"analyzing", "complete"} /\ orchestratorStatus = "ALL AGENTS COMPLETE")
    => \A n \in RosterNames :
         \E i \in DOMAIN agents : agents[i].name = n /\ agents[i].status = "complete"

\* C29: at most one event-stream subscription is open at any time, a start
\* never running while a subscription opened by an earlier start is open.
C29_OneSubscriptionAtATime == openStreams <= 1

\* ======================================================== diagram claims
\* A render whose result arrives for a text that is no longer the chart's.
Stale(r) == r.id # idCounter \/ Blank(chart) \/ r.safeChart # sanitizeChart(chart)

\* C9: when the chart text changed (or the view was torn down) while a render
\* was in flight, the result of that render, svg or failure, is discarded on
\* arrival: it changes nothing of what is on display.
C9_StaleResultDiscarded ==
  [][\A r \in pending :
       (Stale(r) /\ (RenderResolved(r) \/ RenderRejected(r)))
         => UNCHANGED <<innerHTML, error, rendered>>]_vars

\* C10 (as stated): for every input, the empty and whitespace-only ones
\* included, the render ends with the svg or the fallback text on display.
C10_SvgOrFallback ==
  (dMounted /\ pending = {} /\ chart # UNDEFINED) => Display \in {"svg", "fallback"}

\* C10 (amended): once no render is in flight, a chart that is not blank ends
\* with the svg or the fallback text on display, and a blank chart (empty or
\* whitespace only) with the placeholder.
C10_SvgOrFallbackUnlessBlank ==
  (dMounted /\ pending = {})
    => IF Blank(chart) THEN Display = "placeholder" ELSE Display \in {"svg", "fallback"}

\* A render of a non-blank chart was rejected and ended in the fallback.
C10_Witness ==
  /\ dMounted /\ pending = {} /\ idCounter > 0
  /\ ~Blank(chart)
  /\ Display = "fallback"
  /\ error = sanitizeChart(chart)

\* C21: when the engine rejects a render, the fallback text becomes exactly
\* the sanitized text that render handed to the engine: the result of
\* sanitizeChart on the chart the render was started for, whatever the chart
\* is by then.  The rejection ends in the catch handler.
C21_FallbackCarriesSanitizedSource ==
  [][\A r \in pending :
       (dMounted /\ RenderRejected(r))
         => /\ error' = r.safeChart
            /\ error' = sanitizeChart(r.chart)
            /\ error' # NULL]_vars

\* The fallback shows the sanitized text of a chart whose raw text differs
\* from it.
C21_Witness ==
  /\ dMounted /\ pending = {}
  /\ Display = "fallback"
  /\ error = sanitizeChart(chart)
  /\ error # chart

\* C28: every change of the chart to a different non-blank text starts a fresh
\* render of the new text, also when the fallback of a failed render is on
\* display: the engine is invoked with the sanitized new text and the earlier
\* fallback is taken down.
C28_ChartChangeStartsFreshRender ==
  [][\A c \in Charts :
       (SetChart(c) /\ ~Blank(c))
         => /\ \E r \in pending' :
                 r.id = idCounter' /\ r.chart = c /\ r.safeChart = sanitizeChart(c)
            /\ error' = NULL]_vars

\* ====================================================== sanitizer claims
\* C11: sanitizeChart is idempotent: sanitizing its own result changes nothing,
\* also for texts with more than one fence or a fence after a keyword.
C11_SanitizeIdempotent ==
  sanCleaned # NULL => sanitizeChart(sanCleaned) = sanCleaned

ContainsFence(s) == \E i \in 1..(Len(s) - 2) : SubSeq(s, i, i + 2) = Fence

\* what Scenario D expects for a content: the content when it begins with a
\* recognized keyword, else 'graph TD', a newline and the content
Expected(content) ==
  IF \E kw \in valid : StartsWith(content, kw) THEN content ELSE DefaultKeywordLine \o content

\* C20: for a text made of optional whitespace, a fence line with an optional
\* language tag, the content, a closing fence and optional whitespace,
\* sanitizeChart returns a trimmed text without fence: the content when it
\* begins with a recognized keyword, else 'graph TD', a newline and the content.
C20_FencedBlockSanitized ==
  sanCleaned # NULL
    => \A lead \in Surrounds, tag \in Tags, content \in Contents,
          sep \in ClosingSeps, trail \in Surrounds :
         sanRaw = Fenced(lead, tag, content, sep, trail)
           => /\ sanCleaned = Expected(content)
              /\ Trim(sanCleaned) = sanCleaned
              /\ ~ContainsFence(sanCleaned)

\* The text of Scenario D has been sanitized.
C20_Witness ==
  /\ sanRaw = Fenced(<<" ", " ">>, MermaidTag, <<"A", "-", "-", ">", "B">>, <<"\n">>, <<" ", " ">>)
  /\ sanCleaned = DefaultKeywordLine \o <<"A", "-", "-", ">", "B">>
====
